---- MODULE Spec2Model ----
(***************************************************************************)
(* PayPal payment provider for Medusa: the PaypalModuleService lifecycle   *)
(* operations (initiate / authorize / capture / cancel / delete / refund / *)
(* getPaymentStatus), its decline classifier checkPaymentStatus, and the   *)
(* PaypalService processor client they call; the webhook handler           *)
(* getWebhookActionAndData with the client's signature verification.       *)
(*                                                                         *)
(* JavaScript objects are functions whose domain is the set of defined     *)
(* keys: a key that is not in the domain reads as undefined.               *)
(***************************************************************************)
EXTENDS Integers, Sequences, FiniteSets, TLC

VARIABLES
    session,  \* the data bag the framework persists for the payment session
    orders,   \* the processor's orders (amount of each); an order's id is its index
    last,     \* the last adapter invocation: input, outcome, processor calls
    options,  \* the plugin options the service was constructed with
    inflight  \* the invocation in progress: the processor calls it has issued and those answered

vars == <<session, orders, last, options, inflight>>

----------------------------------------------------------------------------
(* Bounds *)

\* Orders the processor accepts in one behaviour.
MaxOrders == 2

\* Refund calls of one refundPayment that the processor may reject.
MaxRefunds == 3

----------------------------------------------------------------------------
(* JavaScript values *)

Undefined == [undefined |-> TRUE]

EmptyObj == <<>>

Has(o, k) == o # Undefined /\ k \in DOMAIN o

\* { ...a, ...b }
Spread(a, b) == [k \in (DOMAIN a) \cup (DOMAIN b) |-> IF k \in DOMAIN b THEN b[k] ELSE a[k]]

\* { ...a, [k]: v }
With(o, k, v) == [x \in (DOMAIN o) \cup {k} |-> IF x = k THEN v ELSE o[x]]

\* { ...a, [k]: undefined }: the key reads as undefined afterwards
Without(o, k) == [x \in (DOMAIN o) \ {k} |-> o[x]]

\* Number(undefined), Number("NaN"): not a number (no amount is negative)
NaN == 0 - 1

\* { ...c } for an object that may be undefined
ContextObject(c) == IF c = Undefined THEN EmptyObj ELSE c

\* !n for a number n
Falsy(n) == n = 0 \/ n = NaN

Digit(d) == CASE d = 0 -> "0" [] d = 1 -> "1" [] d = 2 -> "2" [] d = 3 -> "3"
              [] d = 4 -> "4" [] d = 5 -> "5" [] d = 6 -> "6" [] d = 7 -> "7"
              [] d = 8 -> "8" [] d = 9 -> "9"

DigitValue(c) == CASE c = "0" -> 0 [] c = "1" -> 1 [] c = "2" -> 2 [] c = "3" -> 3
                   [] c = "4" -> 4 [] c = "5" -> 5 [] c = "6" -> 6 [] c = "7" -> 7
                   [] c = "8" -> 8 [] c = "9" -> 9 [] OTHER -> NaN

RECURSIVE NumberToString(_)
\* n.toString(): the decimal digits of n, "NaN" for NaN
NumberToString(n) ==
    IF n = NaN THEN <<"N", "a", "N">>
    ELSE IF n < 10 THEN <<Digit(n)>>
    ELSE NumberToString(n \div 10) \o <<Digit(n % 10)>>

RECURSIVE ParseDigits(_, _)
ParseDigits(s, acc) ==
    IF s = <<>> THEN acc
    ELSE IF DigitValue(Head(s)) = NaN THEN NaN
    ELSE ParseDigits(Tail(s), 10 * acc + DigitValue(Head(s)))

\* Number(s) for a string s of characters, Number(undefined) = NaN
ToNumber(s) ==
    IF s = Undefined THEN NaN
    ELSE IF s = <<>> THEN 0
    ELSE ParseDigits(s, 0)

----------------------------------------------------------------------------
(* Status vocabularies *)

\* PaymentSessionStatus of the framework
PaymentSessionStatus ==
    [AUTHORIZED |-> "authorized", CAPTURED |-> "captured", PENDING |-> "pending",
     CANCELED |-> "canceled"]

\* CaptureStatus of the processor SDK
CaptureStatus ==
    [Completed |-> "COMPLETED", Declined |-> "DECLINED", Pending |-> "PENDING"]

\* new Date().toISOString()
Timestamp == "ISO-8601"

----------------------------------------------------------------------------
(* Outcome of one handler run *)

Return(result, calls, newOrders) ==
    [outcome |-> "return", error |-> "", result |-> result, calls |-> calls, orders |-> newOrders]

Throw(error, calls, newOrders) ==
    [outcome |-> "throw", error |-> error, result |-> EmptyObj, calls |-> calls, orders |-> newOrders]

----------------------------------------------------------------------------
(* PaypalService: the processor client *)

\* The processor accepts an order only with a numeric amount and a currency.
ValidOrderBody(body) ==
    /\ Has(body, "currencyCode")
    /\ ~Falsy(ToNumber(body.value))

\* What the orders endpoint can answer to a create request.
CreateAnswers == {"created", "rejected", "no id"}

CreateOrderBodyWithoutCustomId(input) ==
    LET amount == [value |-> NumberToString(input.amount)]
    IN  IF Has(input, "currency") THEN With(amount, "currencyCode", input.currency) ELSE amount

\* The request createOrder sends for its input.
CreateOrderBody(input) ==
    LET amount == [value |-> NumberToString(input.amount)]
        money  == IF Has(input, "currency") THEN With(amount, "currencyCode", input.currency) ELSE amount
    IN  IF Has(input, "sessionId") THEN With(money, "customId", input.sessionId) ELSE money

\* createOrder(input) against the processor state os, the endpoint answering `answer`.
\* Every processor call is logged with the reply it got.
createOrder(input, os, answer) ==
    LET body == CreateOrderBody(input)
        call(reply) == [fn |-> "createOrder", body |-> body, reply |-> reply]
    IN  IF answer = "rejected" \/ ~ValidOrderBody(body)
        THEN Throw("ApiError", <<call("rejected")>>, os)
        ELSE IF answer = "no id"
        THEN Throw("Error: Failed to create order", <<call("no id")>>, os)
        ELSE Return([id |-> Len(os) + 1, status |-> "CREATED"], <<call("created")>>,
                    Append(os, [value |-> body.value, currencyCode |-> body.currencyCode]))

\* !!includeShippingData, !!includeCustomerData of the constructor
IncludeShippingData(opts) == Has(opts, "includeShippingData") /\ opts.includeShippingData

IncludeCustomerData(opts) == Has(opts, "includeCustomerData") /\ opts.includeCustomerData

\* parsePhoneNumberFromString(phone): the parts of a number in international
\* format, undefined for a text that is no phone number
ParsePhoneNumber(phone) ==
    IF phone = "+15551234567"
    THEN [countryCallingCode |-> "1", nationalNumber |-> "5551234567"]
    ELSE Undefined

\* the keys of o listed in names, each renamed as names says
Renamed(o, names) ==
    LET present == {k \in DOMAIN names : Has(o, k)}
    IN  [n \in {names[k] : k \in present} |-> o[CHOOSE k \in present : names[k] = n]]

mapCustomerDataByShippingSwitch(opts, input) ==
    IF ~IncludeShippingData(opts) \/ ~Has(input, "shipping_info") THEN EmptyObj
    ELSE LET info   == input.shipping_info
             name   == [name |-> [fullName |-> <<info.first_name, " ", info.last_name>>]]
             mailed == IF Has(input, "email") THEN With(name, "emailAddress", input.email) ELSE name
             parsed == IF Has(info, "phone") THEN ParsePhoneNumber(info.phone) ELSE Undefined
         IN  IF parsed = Undefined THEN mailed
             ELSE With(mailed, "phoneNumber", [countryCode |-> parsed.countryCallingCode,
                                               nationalNumber |-> parsed.nationalNumber])

\* mapCustomerData({ email, shipping_info }); undefined spreads to nothing
mapCustomerData(opts, input) ==
    IF ~IncludeCustomerData(opts) \/ ~Has(input, "shipping_info") THEN EmptyObj
    ELSE LET info   == input.shipping_info
             name   == [name |-> [fullName |-> <<info.first_name, " ", info.last_name>>]]
             mailed == IF Has(input, "email") THEN With(name, "emailAddress", input.email) ELSE name
             parsed == IF Has(info, "phone") THEN ParsePhoneNumber(info.phone) ELSE Undefined
         IN  IF parsed = Undefined THEN mailed
             ELSE With(mailed, "phoneNumber", [countryCode |-> parsed.countryCallingCode,
                                               nationalNumber |-> parsed.nationalNumber])

\* mapShippingData(shipping_info); undefined spreads to nothing
mapShippingData(opts, input) ==
    IF ~IncludeShippingData(opts) \/ ~Has(input, "shipping_info")
       \/ ~Has(input.shipping_info, "country_code")
    THEN EmptyObj
    ELSE [address |-> Renamed(input.shipping_info,
                              [country_code |-> "countryCode", postal_code |-> "postalCode",
                               province |-> "adminArea1", city |-> "adminArea2",
                               address_1 |-> "addressLine1"])]

\* items?.map(...) || []
PaypalItems(input) ==
    IF ~Has(input, "items") THEN <<>>
    ELSE [i \in DOMAIN input.items |->
            [name |-> input.items[i].title,
             quantity |-> NumberToString(input.items[i].quantity),
             unitAmount |-> [currencyCode |-> input.currency,
                             value |-> NumberToString(input.items[i].unit_price)]]]

\* The whole request of createOrder: the amount, currency and custom id, and
\* the items, the shipping details and the shipping preference when present.
OrderRequest(input, opts) ==
    LET base     == CreateOrderBody(input)
        hasItems == Len(PaypalItems(input)) > 0
        itemized == IF hasItems
                    THEN Spread(base, [items |-> PaypalItems(input),
                                       breakdown |-> [itemTotal |-> [currencyCode |-> input.currency,
                                                                     value |-> NumberToString(input.amount)]]])
                    ELSE base
        shippingData == Spread(Spread(mapCustomerData(opts, input), mapShippingData(opts, input)),
                               [type |-> "SHIPPING"])
        shipped  == IF Has(input, "shipping_info") THEN With(itemized, "shipping", shippingData)
                    ELSE itemized
    IN  IF IncludeShippingData(opts) /\ Has(input, "shipping_info")
        THEN With(shipped, "shippingPreference", "SET_PROVIDED_ADDRESS")
        ELSE shipped

\* createOrder(input) of a client constructed with the options opts
createOrderConfigured(input, opts, os, answer) ==
    LET body == OrderRequest(input, opts)
        call(reply) == [fn |-> "createOrder", body |-> body, reply |-> reply]
    IN  IF answer = "rejected" \/ ~ValidOrderBody(body)
        THEN Throw("ApiError", <<call("rejected")>>, os)
        ELSE IF answer = "no id"
        THEN Throw("Error: Failed to create order", <<call("no id")>>, os)
        ELSE Return([id |-> Len(os) + 1, status |-> "CREATED"], <<call("created")>>,
                    Append(os, [value |-> body.value, currencyCode |-> body.currencyCode]))

----------------------------------------------------------------------------
(* PaypalModuleService *)

AlreadyCapturedOnlyFramework(status) == status = PaymentSessionStatus.CAPTURED

\* input.data.status === CAPTURED || input.data.status === "COMPLETED"
AlreadyCaptured(status) ==
    status = PaymentSessionStatus.CAPTURED \/ status = "COMPLETED"

initiatePaymentRunWrapsError(input, os, answer) ==
    IF ~Has(input, "data") THEN Throw("MedusaError.INVALID_DATA", <<>>, os)
    ELSE IF ~Has(input, "amount") \/ Falsy(input.amount) \/ ~Has(input, "currency_code")
    THEN Throw("MedusaError.INVALID_DATA", <<>>, os)
    ELSE
        LET base == [amount |-> input.amount, currency |-> input.currency_code]
            req  == IF Has(input.context, "idempotency_key")
                    THEN With(base, "sessionId", input.context.idempotency_key) ELSE base
            r    == createOrder(req, os, answer)
        IN  IF r.outcome = "throw" THEN Throw("MedusaError.INVALID_DATA", r.calls, os)
            ELSE Return(
                    [data |-> Spread(Spread(Spread(input.data, r.result), ContextObject(input.context)),
                                     [amount |-> input.amount, currency_code |-> input.currency_code]),
                     id |-> r.result.id],
                    r.calls, r.orders)

\* initiatePayment(input), the orders endpoint answering `answer`
initiatePaymentRun(input, os, answer) ==
    IF ~Has(input, "data") THEN Throw("MedusaError.INVALID_DATA", <<>>, os)
    ELSE IF ~Has(input, "amount") \/ Falsy(input.amount) \/ ~Has(input, "currency_code")
    THEN Throw("MedusaError.INVALID_DATA", <<>>, os)
    ELSE
        LET base == [amount |-> input.amount, currency |-> input.currency_code]
            req  == IF Has(input.context, "idempotency_key")
                    THEN With(base, "sessionId", input.context.idempotency_key) ELSE base
            r    == createOrder(req, os, answer)
        IN  IF r.outcome = "throw" THEN r
            ELSE Return(
                    [data |-> Spread(Spread(Spread(input.data, r.result), ContextObject(input.context)),
                                     [amount |-> input.amount, currency_code |-> input.currency_code]),
                     id |-> r.result.id],
                    r.calls, r.orders)

----------------------------------------------------------------------------
(* checkPaymentStatus: the decline classifier *)

Retry(headline) == <<headline, ". Please try again or use a different card.">>

RetryOther(headline) == <<headline, ". Please try again and use a different card.">>

\* processorResponseMap
processorResponseMap ==
    [c \in {"0500", "9500", "5400", "5120", "00N7", "1330", "5100"} |->
        CASE c = "0500" -> [code |-> "0500 - DO_NOT_HONOR", message |-> Retry("Card refused by issuer"), retryable |-> FALSE]
          [] c = "9500" -> [code |-> "9500 - SUSPECTED_FRAUD", message |-> RetryOther("Suspected fraudulent card"), retryable |-> FALSE]
          [] c = "5400" -> [code |-> "5400 - EXPIRED_CARD", message |-> RetryOther("Card has expired"), retryable |-> FALSE]
          [] c = "5120" -> [code |-> "5120 - INSUFFICIENT_FUNDS", message |-> Retry("Insufficient funds"), retryable |-> TRUE]
          [] c = "00N7" -> [code |-> "00N7 - CVV_FAILURE", message |-> Retry("Incorrect security code"), retryable |-> TRUE]
          [] c = "1330" -> [code |-> "1330 - INVALID_ACCOUNT", message |-> Retry("Card not valid"), retryable |-> TRUE]
          [] c = "5100" -> [code |-> "5100 - GENERIC_DECLINE", message |-> Retry("Card is declined"), retryable |-> TRUE]]

WithAvsOnly(errorDetails, processorResponse) ==
    IF Has(processorResponse, "avsCode")
    THEN With(errorDetails, "avsCode", processorResponse.avsCode) ELSE errorDetails

\* { ...errorDetails, avsCode: processorResponse.avsCode, cvvCode: processorResponse.cvvCode }
WithAvsCvv(errorDetails, processorResponse) ==
    LET a == IF Has(processorResponse, "avsCode")
             THEN With(errorDetails, "avsCode", processorResponse.avsCode) ELSE errorDetails
    IN  IF Has(processorResponse, "cvvCode") THEN With(a, "cvvCode", processorResponse.cvvCode) ELSE a

UnknownCodeDetailsRetryable(responseCode) ==
    [code |-> responseCode, message |-> Retry("Payment declined"), retryable |-> TRUE]

\* the descriptor of a response code that processorResponseMap does not list
UnknownCodeDetails(responseCode) ==
    [code |-> responseCode, message |-> Retry("Payment declined"), retryable |-> FALSE]

NoCodeDetailsRetryable ==
    [code |-> "DECLINED", message |-> Retry("Payment declined"), retryable |-> TRUE]

\* the descriptor of a decline that carries no response code
NoCodeDetails ==
    [code |-> "DECLINED", message |-> Retry("Payment declined"), retryable |-> FALSE]

UnknownStatusMessageWithoutStatus(status) ==
    <<"Unknown payment status", ". Please try again or use a different card.">>

\* `Unknown payment status: ${status}. Please try again or use a different card.`
UnknownStatusMessage(status) ==
    <<"Unknown payment status: ", status, ". Please try again or use a different card.">>

UnknownStatusResultWithoutError(status) == [status |-> status]

\* default: a status that is neither COMPLETED nor DECLINED
UnknownStatusResult(status) ==
    [status |-> status,
     error |-> [code |-> "UNKNOWN_STATUS",
                message |-> UnknownStatusMessage(status),
                retryable |-> FALSE]]

checkPaymentStatus(status, processorResponse) ==
    IF status = "COMPLETED" THEN [status |-> status]
    ELSE IF status = "DECLINED" THEN
        IF Has(processorResponse, "responseCode") /\ processorResponse.responseCode # ""
        THEN LET rc == processorResponse.responseCode
                 errorDetails ==
                    IF rc \in DOMAIN processorResponseMap THEN processorResponseMap[rc]
                    ELSE UnknownCodeDetails(rc)
             IN  [status |-> status, error |-> WithAvsCvv(errorDetails, processorResponse)]
        ELSE [status |-> status, error |-> NoCodeDetails]
    ELSE UnknownStatusResult(status)

----------------------------------------------------------------------------
(* authorizePayment *)

\* order.purchaseUnits?.[0].payments: reading .payments of a missing first unit throws
FirstUnitFaults(order) ==
    Has(order, "purchaseUnits") /\ Len(order.purchaseUnits) = 0

\* order.purchaseUnits?.[0].payments?.captures?.[0]
FirstCapture(order) ==
    IF /\ Has(order, "purchaseUnits")
       /\ Len(order.purchaseUnits) > 0
       /\ Has(order.purchaseUnits[1], "payments")
       /\ Has(order.purchaseUnits[1].payments, "captures")
       /\ Len(order.purchaseUnits[1].payments.captures) > 0
    THEN order.purchaseUnits[1].payments.captures[1]
    ELSE Undefined

\* body?.purchase_units?.[0]?.payments?.captures?.[0]
FirstCaptureOfBody(body) ==
    IF /\ Has(body, "purchase_units")
       /\ Len(body.purchase_units) > 0
       /\ Has(body.purchase_units[1], "payments")
       /\ Has(body.purchase_units[1].payments, "captures")
       /\ Len(body.purchase_units[1].payments.captures) > 0
    THEN body.purchase_units[1].payments.captures[1]
    ELSE Undefined

\* captureData?.status || CaptureStatus.Declined
StatusOrDeclined(captureData) ==
    IF Has(captureData, "status") /\ captureData.status # "" THEN captureData.status
    ELSE CaptureStatus.Declined

\* captureData?.processorResponse
ProcessorResponseOf(captureData) ==
    IF Has(captureData, "processorResponse") THEN captureData.processorResponse ELSE Undefined

IsAuthorizedNever(data) == FALSE

\* paypalData?.purchaseUnits?.[0].payments?.captures?.[0]?.status === CaptureStatus.Completed
IsAuthorized(data) ==
    Has(FirstCapture(data), "status") /\ FirstCapture(data).status = CaptureStatus.Completed

\* JSON.parse(err?.body || "{}"): the parsed value, or a SyntaxError
JsonParse(text) ==
    IF text = Undefined THEN [ok |-> TRUE, value |-> EmptyObj]
    ELSE IF text.kind = "json" THEN [ok |-> TRUE, value |-> text.value]
    ELSE [ok |-> FALSE]

captureOrderResultWrapped(response) == response

\* PaypalService.captureOrder: capturedOrder.result
captureOrderResult(response) == response.result

\* the createOrder input both replacement paths build; the currency is
\* holder[key], undefined when the holder has no such key
ReplacementInput(amount, holder, key, input) ==
    LET a == [amount |-> amount]
        b == IF Has(holder, key) THEN With(a, "currency", holder[key]) ELSE a
    IN  IF Has(input.context, "idempotency_key")
        THEN With(b, "sessionId", input.context.idempotency_key) ELSE b

PendingOutputKeepsOldOrder(data, newOrder, chk) ==
    [status |-> PaymentSessionStatus.PENDING,
     data |-> IF Has(chk, "error") THEN With(Spread(newOrder, data), "error", chk.error)
              ELSE Without(Spread(newOrder, data), "error")]

\* { status: PENDING, data: { ...input.data, ...newOrder, error } }
PendingOutput(data, newOrder, chk) ==
    [status |-> PaymentSessionStatus.PENDING,
     data |-> IF Has(chk, "error") THEN With(Spread(data, newOrder), "error", chk.error)
              ELSE Without(Spread(data, newOrder), "error")]

AuthorizedOutputProcessorStatus(paypalData) ==
    [data |-> paypalData,
     status |-> IF Has(paypalData, "status") THEN paypalData.status ELSE PaymentSessionStatus.AUTHORIZED]

\* { data: { ...paypalData }, status: AUTHORIZED }
AuthorizedOutput(paypalData) ==
    [data |-> paypalData, status |-> PaymentSessionStatus.AUTHORIZED]

ReplacedSwallowsFailure(r, calls, os, output) ==
    IF r.outcome = "throw" THEN Return(output, calls, os)
    ELSE Return(output, calls, r.orders)

\* const newOrder = await this.client.createOrder(...); return { status: PENDING, ... }:
\* an error of createOrder leaves the handler as it is
Replaced(r, calls, os, output) ==
    IF r.outcome = "throw" THEN Throw(r.error, calls, os)
    ELSE Return(output, calls, r.orders)

\* authorizePayment(input): the capture endpoint answers capAnswer, the orders
\* endpoint answers crAnswer if it is called
authorizePaymentRun(input, os, capAnswer, crAnswer) ==
    IF ~Has(input, "data") THEN Throw("MedusaError.INVALID_DATA", <<>>, os)
    ELSE LET data == input.data IN
    IF \/ ~Has(data, "id")
       \/ ~Has(data, "amount") \/ Falsy(data.amount)
       \/ ~Has(data, "currency_code")
    THEN Throw("MedusaError.INVALID_DATA", <<>>, os)
    ELSE IF FirstUnitFaults(data) THEN Throw("TypeError", <<>>, os)
    ELSE IF IsAuthorized(data) THEN Return(AuthorizedOutput(data), <<>>, os)
    ELSE LET capCall == [fn |-> "captureOrder", id |-> data.id, reply |-> capAnswer] IN
    IF capAnswer.kind = "throw" THEN
        LET parsed == JsonParse(capAnswer.body) IN
        IF ~parsed.ok THEN Throw("SyntaxError", <<capCall>>, os)
        ELSE
            LET captureData == FirstCaptureOfBody(parsed.value)
                r == createOrder(ReplacementInput(data.amount, data, "currency_code", input), os, crAnswer)
                calls == <<capCall>> \o r.calls
            IN  IF captureData = Undefined
                THEN Replaced(r, calls, os,
                              PendingOutput(data, r.result,
                                  [error |-> [code |-> "404", message |-> Retry("Payment declined"),
                                              retryable |-> TRUE]]))
                ELSE Replaced(r, calls, os,
                              PendingOutput(data, r.result,
                                  checkPaymentStatus(StatusOrDeclined(captureData),
                                                     ProcessorResponseOf(captureData))))
    ELSE
        LET paypalData == captureOrderResult(capAnswer.response) IN
        IF FirstUnitFaults(paypalData) THEN Throw("TypeError", <<capCall>>, os)
        ELSE
            LET captureData == FirstCapture(paypalData)
                chk == checkPaymentStatus(StatusOrDeclined(captureData), ProcessorResponseOf(captureData))
            IN  IF chk.status = CaptureStatus.Declined
                THEN
                    LET money == IF Has(captureData, "amount") THEN captureData.amount ELSE Undefined
                        r == createOrder(
                                ReplacementInput(
                                    ToNumber(IF Has(money, "value") THEN money.value ELSE Undefined),
                                    money, "currencyCode",
                                    input),
                                os, crAnswer)
                        calls == <<capCall>> \o r.calls
                    IN  Replaced(r, calls, os, PendingOutput(data, r.result, chk))
                ELSE Return(AuthorizedOutput(paypalData), <<capCall>>, os)

CapturedOutputNoTimestamp(data) ==
    [data |-> Spread(data, [status |-> PaymentSessionStatus.CAPTURED])]

\* { data: { ...input.data, status: CAPTURED, captured_at } }
CapturedOutput(data) ==
    [data |-> Spread(data, [status |-> PaymentSessionStatus.CAPTURED, captured_at |-> Timestamp])]

\* capturePayment(input): every error is caught and rethrown as INVALID_DATA
capturePaymentRun(input, os, capAnswer) ==
    IF ~Has(input, "data") THEN Throw("MedusaError.INVALID_DATA", <<>>, os)
    ELSE LET data == input.data IN
    IF ~Has(data, "id") THEN Throw("MedusaError.INVALID_DATA", <<>>, os)
    ELSE IF Has(data, "status") /\ AlreadyCaptured(data.status)
    THEN Return(CapturedOutput(data), <<>>, os)
    ELSE IF capAnswer.kind = "throw"
    THEN Throw("MedusaError.INVALID_DATA", <<[fn |-> "captureOrder", id |-> data.id, reply |-> capAnswer]>>, os)
    ELSE Return(CapturedOutput(data), <<[fn |-> "captureOrder", id |-> data.id, reply |-> capAnswer]>>, os)

----------------------------------------------------------------------------
(* cancelPayment, deletePayment, refundPayment, getPaymentStatus *)

CanceledOutputKeepsId(orderId) ==
    [data |-> [id |-> orderId, order_id |-> orderId, status |-> PaymentSessionStatus.CANCELED,
               cancelled_at |-> Timestamp]]

\* { data: { order_id, status: CANCELED, cancelled_at } }
CanceledOutput(orderId) ==
    [data |-> [order_id |-> orderId, status |-> PaymentSessionStatus.CANCELED, cancelled_at |-> Timestamp]]

cancelPaymentRunVoidsOrder(input, os) ==
    IF ~Has(input, "data") THEN Throw("MedusaError.INVALID_DATA", <<>>, os)
    ELSE IF ~Has(input.data, "id") THEN Throw("MedusaError.INVALID_DATA", <<>>, os)
    ELSE Return(CanceledOutput(input.data.id), <<[fn |-> "voidOrder", id |-> input.data.id]>>, os)

\* cancelPayment(input): every error is caught and rethrown as INVALID_DATA
cancelPaymentRun(input, os) ==
    IF ~Has(input, "data") THEN Throw("MedusaError.INVALID_DATA", <<>>, os)
    ELSE IF ~Has(input.data, "id") THEN Throw("MedusaError.INVALID_DATA", <<>>, os)
    ELSE Return(CanceledOutput(input.data.id), <<>>, os)

deletePaymentRunWithoutIdCheck(input, os) ==
    IF ~Has(input, "data") THEN Throw("MedusaError.INVALID_DATA", <<>>, os)
    ELSE IF ~Has(input.data, "id")
    THEN Return([data |-> [status |-> PaymentSessionStatus.CANCELED, cancelled_at |-> Timestamp]], <<>>, os)
    ELSE Return(CanceledOutput(input.data.id), <<>>, os)

\* deletePayment(input): the error is rethrown as it is
deletePaymentRun(input, os) ==
    IF ~Has(input, "data") THEN Throw("MedusaError.INVALID_DATA", <<>>, os)
    ELSE IF ~Has(input.data, "id") THEN Throw("MedusaError.INVALID_DATA", <<>>, os)
    ELSE Return(CanceledOutput(input.data.id), <<>>, os)

RECURSIVE CaptureIdsOfCaptures(_)
\* captures.map((capture) => capture.id), undefined ids filtered out
CaptureIdsOfCaptures(captures) ==
    IF captures = <<>> THEN <<>>
    ELSE (IF Has(Head(captures), "id") THEN <<Head(captures).id>> ELSE <<>>)
         \o CaptureIdsOfCaptures(Tail(captures))

RECURSIVE CaptureIds(_)
\* purchaseUnits.flatMap((item) => item?.payments?.captures?.map(...)).filter((id) => id !== undefined)
CaptureIds(purchaseUnits) ==
    IF purchaseUnits = <<>> THEN <<>>
    ELSE (IF Has(Head(purchaseUnits), "payments") /\ Has(Head(purchaseUnits).payments, "captures")
          THEN CaptureIdsOfCaptures(Head(purchaseUnits).payments.captures) ELSE <<>>)
         \o CaptureIds(Tail(purchaseUnits))

clientRefundPaymentAllAtOnce(captureIds, os, failAt) ==
    LET calls == [i \in 1..Len(captureIds) |-> [fn |-> "refundCapturedPayment", captureId |-> captureIds[i],
                                                 reply |-> IF i = failAt THEN "rejected" ELSE "refunded"]]
    IN  IF failAt \in 1..Len(captureIds) THEN Throw("ApiError", calls, os)
        ELSE Return([refunds |-> Len(captureIds)], calls, os)

\* PaypalService.refundPayment(captureIds): one call after the other; the
\* call number failAt is rejected (0: none is)
clientRefundPayment(captureIds, os, failAt) ==
    LET issued == IF failAt \in 1..Len(captureIds) THEN failAt ELSE Len(captureIds)
        calls  == [i \in 1..issued |-> [fn |-> "refundCapturedPayment", captureId |-> captureIds[i],
                                         reply |-> IF i = failAt THEN "rejected" ELSE "refunded"]]
    IN  IF failAt \in 1..Len(captureIds) THEN Throw("ApiError", calls, os)
        ELSE Return([refunds |-> Len(captureIds)], calls, os)

refundPaymentRunIgnoresFailure(input, os, failAt) ==
    IF ~Has(input, "data") THEN Throw("MedusaError.INVALID_DATA", <<>>, os)
    ELSE LET data == input.data
             captureIds == CaptureIds(IF Has(data, "purchaseUnits") THEN data.purchaseUnits ELSE <<>>)
         IN
    IF ~Has(data, "id") THEN Throw("MedusaError.INVALID_DATA", <<>>, os)
    ELSE LET r == clientRefundPayment(captureIds, os, failAt) IN
         Return(CanceledOutput(data.id), r.calls, os)

\* refundPayment(input): every error is caught and rethrown as INVALID_DATA
refundPaymentRun(input, os, failAt) ==
    IF ~Has(input, "data") THEN Throw("MedusaError.INVALID_DATA", <<>>, os)
    ELSE LET data == input.data
             captureIds == CaptureIds(IF Has(data, "purchaseUnits") THEN data.purchaseUnits ELSE <<>>)
         IN
    \* !captureIds never holds: an array, even an empty one, is truthy
    IF ~Has(data, "id") THEN Throw("MedusaError.INVALID_DATA", <<>>, os)
    ELSE LET r == clientRefundPayment(captureIds, os, failAt) IN
         IF r.outcome = "throw" THEN Throw("MedusaError.INVALID_DATA", r.calls, os)
         ELSE Return(CanceledOutput(data.id), r.calls, os)

\* What the orders endpoint can answer to a retrieve request: a failure, no
\* order, an order without status, or an order in one of these states.
RetrieveAnswers ==
    {[kind |-> "throw"], [kind |-> "return", response |-> [result |-> Undefined]],
     [kind |-> "return", response |-> [result |-> [intent |-> "CAPTURE"]]]}
    \cup {[kind |-> "return", response |-> [result |-> [status |-> st]]] :
            st \in {"", "CREATED", "APPROVED", "COMPLETED"}}

OrderMissingOnlyNoOrder(order) == order = Undefined

\* !order || !order.status
OrderMissing(order) == ~Has(order, "status") \/ order.status = ""

MapOrderStatusCreatedIsPending(order) ==
    IF Has(order, "status") /\ order.status = "COMPLETED" THEN PaymentSessionStatus.CAPTURED
    ELSE IF Has(order, "status") /\ order.status = "CREATED" THEN PaymentSessionStatus.PENDING
    ELSE PaymentSessionStatus.AUTHORIZED

\* order.status === "COMPLETED" ? CAPTURED : AUTHORIZED
MapOrderStatus(order) ==
    IF Has(order, "status") /\ order.status = "COMPLETED" THEN PaymentSessionStatus.CAPTURED
    ELSE PaymentSessionStatus.AUTHORIZED

\* getPaymentStatus(input): the error is rethrown as it is
getPaymentStatusRun(input, os, answer) ==
    IF ~Has(input, "data") THEN Throw("MedusaError.INVALID_DATA", <<>>, os)
    ELSE IF ~Has(input.data, "id") THEN Throw("MedusaError.INVALID_DATA", <<>>, os)
    ELSE LET call == [fn |-> "retrieveOrder", id |-> input.data.id, reply |-> answer] IN
         IF answer.kind = "throw" THEN Throw("ApiError", <<call>>, os)
         ELSE LET order == answer.response.result IN
              IF OrderMissing(order) THEN Throw("MedusaError.NOT_FOUND", <<call>>, os)
              ELSE Return([status |-> MapOrderStatus(order)], <<call>>, os)

----------------------------------------------------------------------------
(* getWebhookActionAndData *)

\* What the processor can answer while a webhook is verified: no access
\* token, an HTTP error of the verification endpoint, or its verdict.
VerifyAnswers == {"no token", "http error", "FAILURE", "SUCCESS"}

\* PaypalService.verifyWebhook({ headers, body })
verifyWebhook(opts, body, os, answer) ==
    IF ~Has(opts, "webhookId") THEN Throw("MedusaError.INVALID_DATA", <<>>, os)
    ELSE LET token  == [fn |-> "requestToken",
                        reply |-> IF answer = "no token" THEN "rejected" ELSE "token"]
             verify == [fn |-> "verify-webhook-signature", webhook_id |-> opts.webhookId,
                        webhook_event |-> body, reply |-> answer]
         IN  IF answer = "no token" THEN Throw("Error", <<token>>, os)
             ELSE IF answer = "http error" THEN Throw("Error", <<token, verify>>, os)
             ELSE IF answer # "SUCCESS" THEN Throw("Error", <<token, verify>>, os)
             ELSE Return([status |-> answer, body |-> body], <<token, verify>>, os)

\* data.resource.amount.value: reading .value of a missing amount throws
ResourceFaults(resource) == ~Has(resource, "amount")

WebhookDataOfResourceId(resource) ==
    [session_id |-> resource.id, amount |-> ToNumber(resource.amount.value)]

\* { session_id: resource.custom_id, amount: Number(resource.amount.value) }
WebhookData(resource) ==
    LET amount == [amount |-> ToNumber(resource.amount.value)]
    IN  IF Has(resource, "custom_id") THEN With(amount, "session_id", resource.custom_id) ELSE amount

getWebhookActionAndDataRunDeniedFails(payload, opts, os, answer) ==
    LET data == payload.data
        v    == verifyWebhook(opts, data, os, answer)
        failed == IF ResourceFaults(data.resource) THEN Throw("TypeError", v.calls, os)
                  ELSE Return([action |-> "failed", data |-> WebhookData(data.resource)], v.calls, os)
    IN  IF v.outcome = "throw" THEN failed
        ELSE IF data.event_type \in {"PAYMENT.CAPTURE.COMPLETED", "PAYMENT.CAPTURE.DENIED"}
        THEN IF ResourceFaults(data.resource) \/ data.event_type = "PAYMENT.CAPTURE.DENIED" THEN failed
             ELSE Return([action |-> "captured", data |-> WebhookData(data.resource)], v.calls, os)
        ELSE Return([action |-> "not_supported"], v.calls, os)

\* getWebhookActionAndData(payload): an error of the try block is answered
\* with action "failed", whose data are read from the payload again
getWebhookActionAndDataRun(payload, opts, os, answer) ==
    LET data == payload.data
        v    == verifyWebhook(opts, data, os, answer)
        failed == IF ResourceFaults(data.resource) THEN Throw("TypeError", v.calls, os)
                  ELSE Return([action |-> "failed", data |-> WebhookData(data.resource)], v.calls, os)
    IN  IF v.outcome = "throw" THEN failed
        ELSE IF data.event_type = "PAYMENT.CAPTURE.COMPLETED"
        THEN IF ResourceFaults(data.resource) THEN failed
             ELSE Return([action |-> "captured", data |-> WebhookData(data.resource)], v.calls, os)
        ELSE Return([action |-> "not_supported"], v.calls, os)

----------------------------------------------------------------------------
(* Inputs *)

Amounts == {50}

Currencies == {"USD"}

CorrelationIds == {"sess_1"}

\* input.context: absent, or carrying the idempotency key
Contexts == {Undefined} \cup {[idempotency_key |-> k] : k \in CorrelationIds}

InitiateInputs ==
    {[data |-> EmptyObj, amount |-> a, currency_code |-> c, context |-> x] :
        a \in Amounts \cup {0}, c \in Currencies, x \in Contexts}
    \cup {[amount |-> 50, currency_code |-> "USD", context |-> Undefined],
          [data |-> EmptyObj, amount |-> 50, context |-> Undefined]}

\* processorResponse objects a capture can carry
ProcessorResponses ==
    {[responseCode |-> "5120", avsCode |-> "Y", cvvCode |-> "M"],
     [responseCode |-> "9999"]}

\* The captures the capture endpoint can report for the order o.
CapturesOf(id, o) ==
    LET money == [value |-> o.value, currencyCode |-> o.currencyCode]
        bare(st) == [id |-> id, status |-> st]
        paid(st) == [id |-> id, status |-> st, amount |-> money]
    IN  {paid("COMPLETED"), paid("PENDING"), paid("DECLINED"), bare("DECLINED")}
        \cup {With(paid("DECLINED"), "processorResponse", pr) : pr \in ProcessorResponses}

\* An order captured in several purchase units: three captures with an id,
\* one without, and a unit that carries no payments.
SplitOrder(id) ==
    LET cap(k) == [id |-> 10 * id + k, status |-> "COMPLETED"]
    IN  [id |-> id, status |-> "COMPLETED",
         purchaseUnits |-> <<[referenceId |-> "a", payments |-> [captures |-> <<cap(1)>>]],
                             [referenceId |-> "b"],
                             [referenceId |-> "c",
                              payments |-> [captures |-> <<cap(2), [status |-> "PENDING"], cap(3)>>]]>>]

\* The orders a successful capture call can return for order id.
CapturedOrders(id, o) ==
    LET base == [id |-> id, status |-> "COMPLETED"]
    IN  {base,
         With(base, "purchaseUnits", <<>>),
         With(base, "purchaseUnits", <<[referenceId |-> "default"]>>),
         SplitOrder(id)}
        \cup {With(base, "purchaseUnits", <<[referenceId |-> "default", payments |-> [captures |-> <<c>>]]>>) :
                c \in CapturesOf(id, o)}

\* The captures an error body of the capture endpoint can embed (wire format).
BodyCaptures ==
    {[status |-> "DECLINED", processor_response |-> [response_code |-> "5120"]],
     [status |-> "DECLINED", processorResponse |-> [responseCode |-> "5120"]],
     [status |-> "DECLINED"],
     [status |-> "COMPLETED"],
     [id |-> "capture"]}

\* err.body of a failed capture call: absent, not JSON, or a JSON text
ErrorBodies ==
    {Undefined,
     [kind |-> "malformed"],
     [kind |-> "json", value |-> [name |-> "UNPROCESSABLE_ENTITY"]]}
    \cup {[kind |-> "json", value |-> [purchase_units |-> <<[payments |-> [captures |-> <<c>>]]>>]] :
            c \in BodyCaptures}

\* Everything the capture endpoint can answer for the order the data names.
CaptureAnswers(data, os) ==
    {[kind |-> "throw", body |-> b] : b \in ErrorBodies}
    \cup (IF Has(data, "id") /\ data.id \in DOMAIN os
          THEN {[kind |-> "return", response |-> [result |-> r]] : r \in CapturedOrders(data.id, os[data.id])}
          ELSE {})

\* The framework passes the stored data, or no data at all.
LifecycleInput(context) ==
    IF session = Undefined THEN [context |-> context] ELSE [data |-> session, context |-> context]

\* capturePayment looks at nothing but whether the capture call failed.
CaptureOutcomes(data, os) ==
    {[kind |-> "throw", body |-> Undefined]}
    \cup (IF Has(data, "id") /\ data.id \in DOMAIN os
          THEN {[kind |-> "return", response |-> [result |-> [id |-> data.id, status |-> "COMPLETED"]]]}
          ELSE {})

----------------------------------------------------------------------------
(* The state machine *)

\* The data bag belongs to the framework.  A behaviour starts with no session,
\* or with a session stored earlier whose data carry the order snapshot of a
\* completed capture next to the amount and currency of the session (the data
\* line 139 looks for).
StoredSessions ==
    {[session |-> Undefined, orders |-> <<>>]}
    \cup {[session |-> Spread(o, [amount |-> a, currency_code |-> c]),
           orders |-> <<[value |-> NumberToString(a), currencyCode |-> c]>>] :
            o \in {With([id |-> 1, status |-> "COMPLETED"], "purchaseUnits",
                        <<[referenceId |-> "default",
                           payments |-> [captures |-> <<[id |-> 1, status |-> "COMPLETED"]>>]]>>)},
            a \in Amounts, c \in Currencies}

\* The options after validation; webhookId is optional.
PluginOptions ==
    LET required == [clientId |-> "client", clientSecret |-> "secret", isSandbox |-> FALSE]
    IN  {required, With(required, "webhookId", "WH-1")}

\* No operation has run yet.
NoInvocation ==
    [op |-> "none", input |-> EmptyObj, outcome |-> "none", error |-> "",
     result |-> EmptyObj, calls |-> <<>>]

\* no invocation is in progress
Idle == [op |-> "none"]

\* The lifecycle operations read none of the options: the service is
\* constructed with the required ones.
Init ==
    /\ \E s \in StoredSessions : session = s.session /\ orders = s.orders
    /\ last = NoInvocation
    /\ options = [clientId |-> "client", clientSecret |-> "secret", isSandbox |-> FALSE]
    /\ inflight = Idle

\* The framework persists the data an operation returns; a failed operation
\* leaves the stored data as it was.
Stored(op, input, r) ==
    /\ Len(r.orders) <= MaxOrders
    /\ orders' = r.orders
    /\ last' = [op |-> op, input |-> input, outcome |-> r.outcome, error |-> r.error,
                result |-> r.result, calls |-> r.calls]
    /\ session' = IF r.outcome = "return" /\ Has(r.result, "data") THEN r.result.data ELSE session
    /\ options' = options

\* an invocation taken as one step, from its call to its outcome
Record(op, input, run) ==
    \E r \in {run} : Stored(op, input, r) /\ inflight' = inflight

\* initiatePayment on the data of the stored session, as the framework hands
\* them over when a payment is initiated again for a session it already holds
ReinitiateInputs(stored) ==
    IF stored = Undefined THEN {}
    ELSE {[data |-> stored, amount |-> a, currency_code |-> c, context |-> Undefined] :
            a \in Amounts, c \in Currencies}

initiatePayment ==
    \E input \in InitiateInputs \cup ReinitiateInputs(session), answer \in CreateAnswers :
        Record("initiatePayment", input, initiatePaymentRun(input, orders, answer))

authorizePayment ==
    \E context \in Contexts, crAnswer \in CreateAnswers :
        \E capAnswer \in CaptureAnswers(session, orders) :
            Record("authorizePayment", LifecycleInput(context),
                   authorizePaymentRun(LifecycleInput(context), orders, capAnswer, crAnswer))

capturePayment ==
    \E capAnswer \in CaptureOutcomes(session, orders) :
        Record("capturePayment", LifecycleInput(Undefined),
               capturePaymentRun(LifecycleInput(Undefined), orders, capAnswer))

cancelPayment ==
    Record("cancelPayment", LifecycleInput(Undefined), cancelPaymentRun(LifecycleInput(Undefined), orders))

deletePayment ==
    Record("deletePayment", LifecycleInput(Undefined), deletePaymentRun(LifecycleInput(Undefined), orders))

refundPayment ==
    \E failAt \in 0..MaxRefunds :
        Record("refundPayment", LifecycleInput(Undefined),
               refundPaymentRun(LifecycleInput(Undefined), orders, failAt))

getPaymentStatus ==
    \E answer \in RetrieveAnswers :
        Record("getPaymentStatus", LifecycleInput(Undefined),
               getPaymentStatusRun(LifecycleInput(Undefined), orders, answer))

Next ==
    \/ initiatePayment
    \/ authorizePayment
    \/ capturePayment
    \/ cancelPayment
    \/ deletePayment
    \/ refundPayment
    \/ getPaymentStatus

Spec == Init /\ [][Next]_vars

----------------------------------------------------------------------------
(* The webhook handler: it reads the options and the event, not the session *)

WebhookEventTypes == {"PAYMENT.CAPTURE.COMPLETED", "PAYMENT.CAPTURE.DENIED", "CHECKOUT.ORDER.APPROVED"}

\* resource.amount.value as the processor sends it: a string
AmountValues == {<<"5", "0">>, <<"7", "5">>, <<"a", "b", "c">>}

WebhookResources ==
    LET ids     == {EmptyObj} \cup {[custom_id |-> c] : c \in {"sess_1", "sess_2"}}
        amounts == {EmptyObj} \cup {[amount |-> [value |-> v, currency_code |-> "USD"]] : v \in AmountValues}
    IN  {Spread(Spread([id |-> "capture_1", status |-> "COMPLETED"], i), a) : i \in ids, a \in amounts}

WebhookPayloads ==
    {[data |-> [event_type |-> t, resource |-> r], headers |-> [transmission |-> "signed"]] :
        t \in WebhookEventTypes, r \in WebhookResources}

WebhookInit ==
    /\ session = Undefined
    /\ orders = <<>>
    /\ last = NoInvocation
    /\ options \in PluginOptions
    /\ inflight = Idle

\* The handler returns an action for the framework and stores nothing itself.
getWebhookActionAndData ==
    \E payload \in WebhookPayloads, answer \in VerifyAnswers :
        LET r == getWebhookActionAndDataRun(payload, options, orders, answer) IN
        /\ last' = [op |-> "getWebhookActionAndData", input |-> payload, outcome |-> r.outcome,
                    error |-> r.error, result |-> r.result, calls |-> r.calls]
        /\ UNCHANGED <<session, orders, options, inflight>>

WebhookNext == getWebhookActionAndData

SpecWebhook == WebhookInit /\ [][WebhookNext]_vars

----------------------------------------------------------------------------
(* Order creation with the optional data, under every setting of the switches *)

ShippingInfos ==
    LET person == [first_name |-> "Ada", last_name |-> "Byron"]
        home   == Spread(person, [country_code |-> "US", postal_code |-> "10001", city |-> "NYC",
                                  address_1 |-> "1 Main St"])
    IN  {person, home, With(home, "phone", "+15551234567"), With(person, "phone", "none")}

ItemLists == {<<>>, <<[title |-> "Book", quantity |-> 2, unit_price |-> 25]>>}

\* what initiatePayment and authorizePayment can hand to createOrder
CreateOrderInputs ==
    LET base   == {[amount |-> 50, currency |-> "USD", sessionId |-> "sess_1"]}
        items  == {EmptyObj} \cup {[items |-> l] : l \in ItemLists}
        ships  == {EmptyObj} \cup {[shipping_info |-> i] : i \in ShippingInfos}
        emails == {EmptyObj, [email |-> "ada@example.com"]}
    IN  {Spread(Spread(Spread(b, i), h), e) : b \in base, i \in items, h \in ships, e \in emails}

ConfiguredOptions ==
    LET required == [clientId |-> "client", clientSecret |-> "secret", isSandbox |-> FALSE]
    IN  {Spread(required, [includeShippingData |-> a, includeCustomerData |-> b]) :
            a \in BOOLEAN, b \in BOOLEAN}

CreateOrderInit ==
    /\ session = Undefined
    /\ orders = <<>>
    /\ last = NoInvocation
    /\ options \in ConfiguredOptions
    /\ inflight = Idle

createOrderRequest ==
    \E input \in CreateOrderInputs, answer \in CreateAnswers :
        Record("createOrder", input, createOrderConfigured(input, options, orders, answer))

CreateOrderNext == createOrderRequest

SpecCreateOrder == CreateOrderInit /\ [][CreateOrderNext]_vars

----------------------------------------------------------------------------
(* The decline classifier on its own: a pure function of its two arguments *)

ClassifierStatuses == {"COMPLETED", "DECLINED", "PENDING", "FAILED"}

TableCodes == {"0500", "9500", "5400", "5120", "00N7", "1330", "5100"}

OtherCodes == {"9999", "0000", "5110"}

\* capture.processorResponse: undefined, or an object with any of its codes
ClassifierResponses ==
    LET codes == {EmptyObj} \cup {[responseCode |-> c] : c \in TableCodes \cup OtherCodes \cup {""}}
        avs   == {EmptyObj} \cup {[avsCode |-> a] : a \in {"Y", "N"}}
        cvv   == {EmptyObj} \cup {[cvvCode |-> c] : c \in {"M", "N"}}
    IN  {Undefined} \cup {Spread(Spread(c, a), v) : c \in codes, a \in avs, v \in cvv}

ClassifierInit ==
    /\ session = Undefined
    /\ orders = <<>>
    /\ last = NoInvocation
    /\ options = [clientId |-> "client", clientSecret |-> "secret", isSandbox |-> FALSE]
    /\ inflight = Idle

classify ==
    \E status \in ClassifierStatuses, processorResponse \in ClassifierResponses :
        /\ last' = [op |-> "checkPaymentStatus",
                    input |-> [status |-> status, processorResponse |-> processorResponse],
                    outcome |-> "return", error |-> "",
                    result |-> checkPaymentStatus(status, processorResponse), calls |-> <<>>]
        /\ UNCHANGED <<session, orders, options, inflight>>

ClassifierNext == classify

SpecClassifier == ClassifierInit /\ [][ClassifierNext]_vars

----------------------------------------------------------------------------
(* The operations step by step: each processor call is issued and answered *)

\* the client's methods await the processor call they make (lines 118, 160,
\* 198, 206, 214, 225, 246, 248)
AwaitedExceptRefunds(fn) ==
    fn \in {"requestToken", "createOrder", "captureOrder", "retrieveOrder", "authorizeOrder",
            "verify-webhook-signature"}

Awaited(fn) ==
    fn \in {"requestToken", "createOrder", "captureOrder", "retrieveOrder", "authorizeOrder",
            "refundCapturedPayment", "verify-webhook-signature"}

\* the service's handlers await every client method they call (lines 103,
\* 143, 149, 198, 267, 307, 363, 400)
ServiceAwaits(op) ==
    op \in {"initiatePayment", "authorizePayment", "capturePayment", "refundPayment",
            "getPaymentStatus", "getWebhookActionAndData"}

\* the handler of op is suspended while its call fn is outstanding
Suspends(op, fn) == ServiceAwaits(op) /\ Awaited(fn)

\* The inputs and answers of the step-by-step runs: one of each kind that
\* makes a handler take a different path to its processor calls.
AwaitInitiateInputs ==
    {[data |-> EmptyObj, amount |-> a, currency_code |-> "USD", context |-> Undefined] : a \in {0, 50}}

\* the capture call fails, or returns an order captured or declined
AwaitCaptureAnswers(data, os) ==
    {a \in CaptureAnswers(data, os) :
        IF a.kind = "throw" THEN a.body = Undefined
        ELSE a.response.result \in
                {SplitOrder(data.id),
                 [id |-> data.id, status |-> "COMPLETED",
                  purchaseUnits |-> <<[referenceId |-> "default",
                                       payments |-> [captures |-> <<[id |-> data.id, status |-> "DECLINED"]>>]]>>]}}

AwaitRetrieveAnswers ==
    {a \in RetrieveAnswers : a.kind = "return" => a.response.result = [status |-> "COMPLETED"]}

AwaitPayloads ==
    {p \in WebhookPayloads :
        /\ p.data.event_type = "PAYMENT.CAPTURE.COMPLETED"
        /\ Has(p.data.resource, "custom_id") /\ p.data.resource.custom_id = "sess_1"
        /\ Has(p.data.resource, "amount") /\ p.data.resource.amount.value = <<"5", "0">>}

AwaitInit ==
    /\ \E s \in StoredSessions : session = s.session /\ orders = s.orders
    /\ last = NoInvocation
    /\ options = [clientId |-> "client", clientSecret |-> "secret", isSandbox |-> FALSE,
                  webhookId |-> "WH-1"]
    /\ inflight = Idle

\* a handler is entered: the processor's answers decide the calls it will make
Begin(op, input, run) ==
    /\ inflight = Idle
    /\ Len(run.orders) <= MaxOrders
    /\ inflight' = [op |-> op, input |-> input, run |-> run, issued |-> 0, resolved |-> 0]
    /\ UNCHANGED <<session, orders, last, options>>

beginOperation ==
    \/ \E input \in AwaitInitiateInputs, answer \in CreateAnswers :
            Begin("initiatePayment", input, initiatePaymentRun(input, orders, answer))
    \/ \E crAnswer \in CreateAnswers :
            \E capAnswer \in AwaitCaptureAnswers(session, orders) :
                Begin("authorizePayment", LifecycleInput(Undefined),
                      authorizePaymentRun(LifecycleInput(Undefined), orders, capAnswer, crAnswer))
    \/ \E capAnswer \in CaptureOutcomes(session, orders) :
            Begin("capturePayment", LifecycleInput(Undefined),
                  capturePaymentRun(LifecycleInput(Undefined), orders, capAnswer))
    \/ Begin("cancelPayment", LifecycleInput(Undefined), cancelPaymentRun(LifecycleInput(Undefined), orders))
    \/ Begin("deletePayment", LifecycleInput(Undefined), deletePaymentRun(LifecycleInput(Undefined), orders))
    \/ \E failAt \in 0..MaxRefunds :
            Begin("refundPayment", LifecycleInput(Undefined),
                  refundPaymentRun(LifecycleInput(Undefined), orders, failAt))
    \/ \E answer \in AwaitRetrieveAnswers :
            Begin("getPaymentStatus", LifecycleInput(Undefined),
                  getPaymentStatusRun(LifecycleInput(Undefined), orders, answer))
    \/ \E payload \in AwaitPayloads, answer \in VerifyAnswers :
            Begin("getWebhookActionAndData", payload,
                  getWebhookActionAndDataRun(payload, options, orders, answer))

\* the handler reaches its next call: it can only while no call it awaits is outstanding
issueCall ==
    /\ inflight # Idle
    /\ inflight.issued < Len(inflight.run.calls)
    /\ \A j \in (inflight.resolved + 1)..inflight.issued :
            ~Suspends(inflight.op, inflight.run.calls[j].fn)
    /\ inflight' = [inflight EXCEPT !.issued = @ + 1]
    /\ UNCHANGED <<session, orders, last, options>>

\* the processor answers the oldest outstanding call
resolveCall ==
    /\ inflight # Idle
    /\ inflight.resolved < inflight.issued
    /\ inflight' = [inflight EXCEPT !.resolved = @ + 1]
    /\ UNCHANGED <<session, orders, last, options>>

\* the handler returns or throws; the framework stores what a lifecycle operation returned
finishOperation ==
    /\ inflight # Idle
    /\ inflight.issued = Len(inflight.run.calls)
    /\ inflight.resolved = inflight.issued
    /\ inflight' = Idle
    /\ IF inflight.op = "getWebhookActionAndData"
       THEN /\ last' = [op |-> inflight.op, input |-> inflight.input,
                        outcome |-> inflight.run.outcome, error |-> inflight.run.error,
                        result |-> inflight.run.result, calls |-> inflight.run.calls]
            /\ UNCHANGED <<session, orders, options>>
       ELSE Stored(inflight.op, inflight.input, inflight.run)

AwaitNext ==
    \/ beginOperation
    \/ issueCall
    \/ resolveCall
    \/ finishOperation

SpecAwait == AwaitInit /\ [][AwaitNext]_vars

----------------------------------------------------------------------------
(* Properties of the last invocation *)

Ran(op) == last.op = op

Returned == last.outcome = "return"

\* the session states of the framework's state machine
FrameworkStates == {"not_initiated", "pending", "authorized", "captured", "canceled"}

\* message.includes(text)
Contains(message, text) == \E i \in DOMAIN message : message[i] = text

\* authorizePayment ran on data whose id, amount and currency_code are set
AuthorizeInputSet ==
    /\ Ran("authorizePayment")
    /\ Has(last.input, "data")
    /\ Has(last.input.data, "id")
    /\ Has(last.input.data, "amount") /\ ~Falsy(last.input.data.amount)
    /\ Has(last.input.data, "currency_code")

\* the first capture of the order reports the status st
FirstCaptureReports(order, st) ==
    /\ ~FirstUnitFaults(order)
    /\ Has(FirstCapture(order), "status")
    /\ FirstCapture(order).status = st

\* authorizePayment called the capture endpoint, which returned an order
CaptureReturned ==
    /\ Ran("authorizePayment")
    /\ Len(last.calls) >= 1
    /\ last.calls[1].fn = "captureOrder"
    /\ last.calls[1].reply.kind = "return"

\* authorizePayment called the capture endpoint, which rejected the call
CaptureThrew ==
    /\ Ran("authorizePayment")
    /\ Len(last.calls) >= 1
    /\ last.calls[1].fn = "captureOrder"
    /\ last.calls[1].reply.kind = "throw"

CapturedOrder == last.calls[1].reply.response.result

CaptureErrorBody == last.calls[1].reply.body

CreateCalls == {i \in DOMAIN last.calls : last.calls[i].fn = "createOrder"}

\* a createOrder call was made and the processor did not create the order
CreateFailed == \E i \in CreateCalls : last.calls[i].reply # "created"

\* the call asks for an order with the amount, currency and correlation id of
\* the request being handled
SameAsRequest(call) ==
    /\ call.fn = "createOrder"
    /\ call.body.value = NumberToString(last.input.data.amount)
    /\ Has(call.body, "currencyCode")
    /\ call.body.currencyCode = last.input.data.currency_code
    /\ Has(call.body, "customId") <=> Has(last.input.context, "idempotency_key")
    /\ Has(call.body, "customId") => call.body.customId = last.input.context.idempotency_key

\* the result is PENDING and its data carries the id of the order just created
PendingOnNewOrder ==
    /\ Returned
    /\ last.result.status = PaymentSessionStatus.PENDING
    /\ last.result.data.id = Len(orders)
    /\ last.result.data.id # last.input.data.id

----------------------------------------------------------------------------
(* C1 *)

C1_Case ==
    AuthorizeInputSet /\ FirstCaptureReports(last.input.data, "COMPLETED")

\* C1: authorizePayment on a session whose first capture already reports
\* COMPLETED (id, amount and currency_code set) returns AUTHORIZED and calls
\* the processor not at all: no captureOrder, no createOrder.
C1_CompletedCaptureSkipsProcessor ==
    C1_Case => /\ Returned
               /\ last.result.status = PaymentSessionStatus.AUTHORIZED
               /\ last.calls = <<>>

C1_Witness == C1_Case /\ Returned /\ last.calls = <<>>

----------------------------------------------------------------------------
(* C2 *)

\* C2: authorizePayment returns AUTHORIZED only when the capture is COMPLETED,
\* in the session data or in the result of the capture call it just made.
C2_AuthorizedOnlyWhenCompleted ==
    (Ran("authorizePayment") /\ Returned /\ last.result.status = PaymentSessionStatus.AUTHORIZED)
        => \/ FirstCaptureReports(last.input.data, "COMPLETED")
           \/ CaptureReturned /\ FirstCaptureReports(CapturedOrder, "COMPLETED")

----------------------------------------------------------------------------
(* C3 *)

C3_Case ==
    CaptureReturned /\ FirstCaptureReports(CapturedOrder, "COMPLETED")

\* C3: when the capture call made by authorizePayment on order O1 succeeds with
\* a COMPLETED capture, the result is AUTHORIZED, its data is the order the
\* capture call returned, data.id = O1, and no order is created.
C3_CompletedCaptureAuthorizes ==
    C3_Case => /\ Returned
               /\ last.result.status = PaymentSessionStatus.AUTHORIZED
               /\ last.result.data = CapturedOrder
               /\ Has(last.result.data, "id")
               /\ last.result.data.id = last.input.data.id
               /\ CreateCalls = {}

C3_Witness == C3_Case /\ Returned /\ last.result.data.id = last.input.data.id

----------------------------------------------------------------------------
(* C4 *)

\* the capture call succeeded and the capture it reports counts as declined
C4_Case ==
    /\ CaptureReturned
    /\ ~FirstUnitFaults(CapturedOrder)
    /\ StatusOrDeclined(FirstCapture(CapturedOrder)) = CaptureStatus.Declined

\* C4: when the capture call succeeds but the capture is declined,
\* authorizePayment asks for a new order with the amount, currency and
\* correlation id of the session being authorized, and (the order created)
\* returns PENDING with the new order's id and the decline descriptor as error.
C4_DeclinedCaptureReplacesOrder ==
    C4_Case => /\ Len(last.calls) = 2
               /\ SameAsRequest(last.calls[2])
               /\ last.calls[2].reply = "created"
                    => /\ PendingOnNewOrder
                       /\ Has(last.result.data, "error")

----------------------------------------------------------------------------
(* C5 *)

\* C5: whenever the processor rejects the capture call, authorizePayment
\* creates a replacement order and returns PENDING; the failure of the capture
\* call does not reach the caller as an exception.  (Stated for the runs in
\* which the replacement order itself is not refused.)
C5_CaptureFailureNeverPropagates ==
    (CaptureThrew /\ ~CreateFailed)
        => /\ Returned
           /\ Cardinality(CreateCalls) = 1
           /\ PendingOnNewOrder

----------------------------------------------------------------------------
(* C6 *)

\* C6: on a capture failure inside authorizePayment (the call is rejected, or
\* the capture comes back declined) createOrder is called exactly once, with
\* the amount, currency and correlation id of the request.
C6_ExactlyOneReplacement ==
    (CaptureThrew \/ C4_Case)
        => /\ Cardinality(CreateCalls) = 1
           /\ \A i \in CreateCalls : SameAsRequest(last.calls[i])

----------------------------------------------------------------------------
(* C7 *)

\* the capture the error body embeds carries the processor response code
BodyCaptureHasCode(c, code) ==
    \/ /\ Has(c, "processor_response")
       /\ Has(c.processor_response, "response_code")
       /\ c.processor_response.response_code = code
    \/ /\ Has(c, "processorResponse")
       /\ Has(c.processorResponse, "responseCode")
       /\ c.processorResponse.responseCode = code

\* the capture failed with the decline code: in the body of the rejected call,
\* or on the declined capture of the returned order
CaptureFailedWithCode(code) ==
    \/ /\ CaptureThrew
       /\ Has(CaptureErrorBody, "kind")
       /\ CaptureErrorBody.kind = "json"
       /\ BodyCaptureHasCode(FirstCaptureOfBody(CaptureErrorBody.value), code)
    \/ /\ CaptureReturned
       /\ FirstCaptureReports(CapturedOrder, "DECLINED")
       /\ Has(FirstCapture(CapturedOrder), "processorResponse")
       /\ Has(FirstCapture(CapturedOrder).processorResponse, "responseCode")
       /\ FirstCapture(CapturedOrder).processorResponse.responseCode = code

\* C7: authorizePayment on O1 whose capture fails with decline code "5120"
\* returns PENDING with error.retryable = true and a message containing
\* "Insufficient funds", and its data carries the id of a new order O2 # O1.
C7_InsufficientFundsIsRetryable ==
    (CaptureFailedWithCode("5120") /\ CreateCalls # {} /\ ~CreateFailed)
        => /\ PendingOnNewOrder
           /\ Has(last.result.data, "error")
           /\ last.result.data.error.retryable = TRUE
           /\ Contains(last.result.data.error.message, "Insufficient funds")

----------------------------------------------------------------------------
(* C8 *)

\* the error payload of the rejected capture call carries no capture detail
NoCaptureDetail(body) ==
    \/ ~Has(body, "kind")
    \/ body.kind = "malformed"
    \/ body.kind = "json" /\ FirstCaptureOfBody(body.value) = Undefined

\* C8: when the capture call fails and its error payload carries no capture
\* detail, authorizePayment returns PENDING with the synthesized generic
\* "payment declined" descriptor, retryable = true, as data.error.  (Stated
\* for the runs in which the replacement order itself is not refused.)
C8_GenericDeclineSynthesized ==
    (CaptureThrew /\ NoCaptureDetail(CaptureErrorBody) /\ ~CreateFailed)
        => /\ Returned
           /\ last.result.status = PaymentSessionStatus.PENDING
           /\ Has(last.result.data, "error")
           /\ last.result.data.error.retryable = TRUE
           /\ Contains(last.result.data.error.message, "Payment declined")

----------------------------------------------------------------------------
(* C9 *)

ResultHasDataStatus ==
    Returned /\ Has(last.result, "data") /\ Has(last.result.data, "status")

\* C9 as claimed: every status the adapter emits, the top-level status of a
\* result and the status field of the data it returns, is one of the five
\* framework states.
C9_EveryEmittedStatusIsFrameworkState ==
    Returned => /\ Has(last.result, "status") => last.result.status \in FrameworkStates
                /\ ResultHasDataStatus => last.result.data.status \in FrameworkStates

\* C9: the top-level status of every result is one of the five framework
\* states, and so is the status that capturePayment, cancelPayment,
\* deletePayment and refundPayment write into the data; the data that
\* initiatePayment and authorizePayment return carry the status of the order
\* snapshot they spread into it.
C9_TopLevelStatusIsFrameworkState ==
    Returned => /\ Has(last.result, "status") => last.result.status \in FrameworkStates
                /\ (ResultHasDataStatus /\ last.op \in {"capturePayment", "cancelPayment",
                                                        "deletePayment", "refundPayment"})
                        => last.result.data.status \in FrameworkStates

C9_Witness ==
    /\ Ran("authorizePayment") /\ Returned
    /\ last.result.status = PaymentSessionStatus.PENDING
    /\ ResultHasDataStatus
    /\ last.result.data.status = "CREATED"

----------------------------------------------------------------------------
(* C10 *)

C10_Case ==
    /\ Ran("capturePayment")
    /\ Has(last.input, "data")
    /\ Has(last.input.data, "status")
    /\ last.input.data.status \in {PaymentSessionStatus.CAPTURED, "COMPLETED"}

C10_NoCallWhenCaptured ==
    C10_Case => /\ Returned
                /\ last.result.data.status = PaymentSessionStatus.CAPTURED
                /\ last.calls = <<>>

C10_RepeatMakesNoCall ==
    (Ran("capturePayment") /\ Returned /\ last'.op = "capturePayment")
        => last'.outcome = "return" /\ last'.calls = <<>>

\* C10: capturePayment on a session whose data.status is CAPTURED or COMPLETED
\* returns CAPTURED without any processor call, and capturePayment applied
\* again to what capturePayment returned makes no processor call, so a run of
\* repeated captures calls the capture endpoint at most once.
C10_CaptureIsIdempotent ==
    [](C10_NoCallWhenCaptured) /\ [][C10_RepeatMakesNoCall]_vars

C10_Witness ==
    C10_Case /\ Returned /\ last.input.data.status = "COMPLETED" /\ last.calls = <<>>

----------------------------------------------------------------------------
(* C11 *)

\* the operation op ran on stored data that name an order
RanOnOrder(op) ==
    /\ Ran(op)
    /\ Has(last.input, "data")
    /\ Has(last.input.data, "id")

\* capturePayment ran on a session that names an order and is not yet captured
C11_Case ==
    /\ RanOnOrder("capturePayment")
    /\ ~(Has(last.input.data, "status")
         /\ last.input.data.status \in {PaymentSessionStatus.CAPTURED, "COMPLETED"})

\* C11: on a session that names an order and is not yet CAPTURED/COMPLETED,
\* capturePayment makes exactly one processor call, a capture of that order;
\* when the call succeeds it returns the session data with status CAPTURED and
\* a capture timestamp; when the call fails it throws the adapter's error,
\* having made no further capture call and no createOrder call, and returns
\* no status and no data.
C11_OneCaptureCallThenCapturedOrError ==
    C11_Case =>
        /\ Len(last.calls) = 1
        /\ last.calls[1].fn = "captureOrder"
        /\ last.calls[1].id = last.input.data.id
        /\ last.calls[1].reply.kind = "return" =>
                /\ Returned
                /\ last.result.data.status = PaymentSessionStatus.CAPTURED
                /\ Has(last.result.data, "captured_at")
                /\ \A k \in DOMAIN last.input.data \ {"status", "captured_at"} :
                        Has(last.result.data, k) /\ last.result.data[k] = last.input.data[k]
        /\ last.calls[1].reply.kind = "throw" =>
                /\ last.outcome = "throw"
                /\ last.error = "MedusaError.INVALID_DATA"
                /\ CreateCalls = {}
                /\ ~Has(last.result, "status")
                /\ ~Has(last.result, "data")

C11_Witness ==
    /\ C11_Case /\ Returned
    /\ Has(last.input.data, "status")
    /\ last.input.data.status = "CREATED"
    /\ Len(last.calls) = 1
    /\ last.result.data.status = PaymentSessionStatus.CAPTURED

----------------------------------------------------------------------------
(* C12 *)

C12_Case == RanOnOrder("cancelPayment") \/ RanOnOrder("deletePayment")

\* C12: cancelPayment and deletePayment on a session that names an order
\* return the order id with status CANCELED and a cancellation timestamp and
\* make no processor call at all, whatever state the session is in.
C12_CancelAndDeleteAreLocal ==
    C12_Case =>
        /\ Returned
        /\ last.result.data.status = PaymentSessionStatus.CANCELED
        /\ Has(last.result.data, "cancelled_at")
        /\ last.result.data.order_id = last.input.data.id
        /\ last.calls = <<>>

C12_Witness ==
    /\ RanOnOrder("cancelPayment") /\ Returned
    /\ Has(last.input.data, "status")
    /\ last.input.data.status = "COMPLETED"
    /\ last.result.data.status = PaymentSessionStatus.CANCELED
    /\ last.calls = <<>>

----------------------------------------------------------------------------
(* C13, C14 *)

\* the capture ids of the session's purchase units, in the order they appear
SessionCaptureIds ==
    CaptureIds(IF Has(last.input.data, "purchaseUnits") THEN last.input.data.purchaseUnits ELSE <<>>)

\* C13: refundPayment on a session that names an order issues refund calls
\* for the session's capture ids one after the other in the order the ids
\* appear, a call being issued only after every earlier one has succeeded,
\* and it returns CANCELED with a timestamp only when there is one successful
\* refund call for every capture id.
C13_RefundsEachCaptureInOrder ==
    RanOnOrder("refundPayment") =>
        /\ Len(last.calls) <= Len(SessionCaptureIds)
        /\ \A i \in DOMAIN last.calls :
                /\ last.calls[i].fn = "refundCapturedPayment"
                /\ last.calls[i].captureId = SessionCaptureIds[i]
                /\ i < Len(last.calls) => last.calls[i].reply = "refunded"
        /\ Returned <=> /\ Len(last.calls) = Len(SessionCaptureIds)
                        /\ \A i \in DOMAIN last.calls : last.calls[i].reply = "refunded"
        /\ Returned => /\ last.result.data.status = PaymentSessionStatus.CANCELED
                       /\ Has(last.result.data, "cancelled_at")

C13_Witness ==
    /\ RanOnOrder("refundPayment") /\ Returned
    /\ Len(SessionCaptureIds) = 3
    /\ Len(last.calls) = 3
    /\ last.calls[3].captureId = SessionCaptureIds[3]

\* C14: refundPayment on a session that names an order and whose purchase
\* units yield no capture id fails, returns no CANCELED and makes no refund call.
C14_NoCaptureIdsFails ==
    (RanOnOrder("refundPayment") /\ SessionCaptureIds = <<>>)
        => /\ last.outcome = "throw"
           /\ last.error = "MedusaError.INVALID_DATA"
           /\ last.calls = <<>>

----------------------------------------------------------------------------
(* C15, C16 *)

\* getPaymentStatus ran on a session that names an order and the retrieve
\* call returned
RetrieveReturned ==
    /\ RanOnOrder("getPaymentStatus")
    /\ Len(last.calls) = 1
    /\ last.calls[1].reply.kind = "return"

RetrievedOrder == last.calls[1].reply.response.result

\* the processor reported no order, or an order with no status
NoOrderStatus(order) ==
    \/ order = Undefined
    \/ "status" \notin DOMAIN order
    \/ order.status = ""

\* C15: getPaymentStatus on a session that names an order makes one retrieve
\* call for that order; when the order has a non-empty status it returns
\* CAPTURED if that status is COMPLETED and AUTHORIZED otherwise (a CREATED
\* order included), and it never returns another status.
C15_CapturedIffCompleted ==
    RanOnOrder("getPaymentStatus") =>
        /\ Len(last.calls) = 1
        /\ last.calls[1].fn = "retrieveOrder"
        /\ last.calls[1].id = last.input.data.id
        /\ (RetrieveReturned /\ ~NoOrderStatus(RetrievedOrder)) =>
                /\ Returned
                /\ last.result.status = PaymentSessionStatus.CAPTURED
                        <=> RetrievedOrder.status = "COMPLETED"
                /\ last.result.status = PaymentSessionStatus.AUTHORIZED
                        <=> RetrievedOrder.status # "COMPLETED"
        /\ Returned => /\ RetrieveReturned /\ ~NoOrderStatus(RetrievedOrder)
                       /\ last.result.status \in {PaymentSessionStatus.CAPTURED,
                                                  PaymentSessionStatus.AUTHORIZED}

C15_Witness ==
    /\ RetrieveReturned /\ Returned
    /\ RetrievedOrder.status = "CREATED"
    /\ last.result.status = PaymentSessionStatus.AUTHORIZED

\* C16: getPaymentStatus throws the NOT_FOUND error exactly when the retrieve
\* call returned no order or an order with no status; a rejected retrieve
\* call and missing input end in other errors.
C16_NotFoundIffNoOrderStatus ==
    Ran("getPaymentStatus") =>
        /\ (RetrieveReturned /\ NoOrderStatus(RetrievedOrder))
                <=> (last.outcome = "throw" /\ last.error = "MedusaError.NOT_FOUND")
        /\ ~RanOnOrder("getPaymentStatus")
                => (last.outcome = "throw" /\ last.error = "MedusaError.INVALID_DATA")
        /\ (RanOnOrder("getPaymentStatus") /\ ~RetrieveReturned)
                => (last.outcome = "throw" /\ last.error = "ApiError")

C16_Witness ==
    /\ RetrieveReturned
    /\ RetrievedOrder # Undefined
    /\ "status" \notin DOMAIN RetrievedOrder
    /\ last.outcome = "throw" /\ last.error = "MedusaError.NOT_FOUND"

----------------------------------------------------------------------------
(* C17, C18 *)

\* the classifier ran on status DECLINED with a response code of the set codes
DeclinedWithCode(codes) ==
    /\ Ran("checkPaymentStatus")
    /\ last.input.status = "DECLINED"
    /\ Has(last.input.processorResponse, "responseCode")
    /\ last.input.processorResponse.responseCode \in codes

\* the descriptor carries the AVS and CVV codes of the processor response,
\* each exactly when the response has it, and no key besides
CarriesAvsCvv(error, processorResponse) ==
    /\ DOMAIN error \subseteq {"code", "message", "retryable", "avsCode", "cvvCode"}
    /\ Has(error, "avsCode") <=> Has(processorResponse, "avsCode")
    /\ Has(error, "avsCode") => error.avsCode = processorResponse.avsCode
    /\ Has(error, "cvvCode") <=> Has(processorResponse, "cvvCode")
    /\ Has(error, "cvvCode") => error.cvvCode = processorResponse.cvvCode

\* C17: for each of the seven response codes of the lookup table and every
\* AVS/CVV input, the classifier on status DECLINED returns the table entry's
\* code, message and retryable flag (retryable for 5120, 00N7, 1330 and 5100
\* only) together with the AVS and CVV codes of the processor response.
C17_TableEntryWithAvsCvv ==
    DeclinedWithCode({"0500", "9500", "5400", "5120", "00N7", "1330", "5100"}) =>
        LET rc == last.input.processorResponse.responseCode
            e  == last.result.error
        IN  /\ last.result.status = "DECLINED"
            /\ e.code = processorResponseMap[rc].code
            /\ e.message = processorResponseMap[rc].message
            /\ e.retryable = processorResponseMap[rc].retryable
            /\ e.retryable <=> rc \in {"5120", "00N7", "1330", "5100"}
            /\ CarriesAvsCvv(e, last.input.processorResponse)

C17_Witness ==
    /\ DeclinedWithCode({"00N7"})
    /\ Has(last.input.processorResponse, "avsCode")
    /\ Has(last.input.processorResponse, "cvvCode")
    /\ last.result.error.code = "00N7 - CVV_FAILURE"
    /\ last.result.error.retryable
    /\ last.result.error.cvvCode = "N"

\* a non-empty response code that the lookup table does not list
UnlistedCodes == {"9999", "0000", "5110"}

\* C18 as stated: for a response code absent from the table, the descriptor
\* of a DECLINED capture is non-retryable and its message contains the code.
C18_MessageContainsCode ==
    DeclinedWithCode(UnlistedCodes) =>
        /\ ~last.result.error.retryable
        /\ Contains(last.result.error.message, last.input.processorResponse.responseCode)

\* C18 amended: for a response code absent from the table, the descriptor of
\* a DECLINED capture is non-retryable, its code field is the original code,
\* and its message is the fixed "Payment declined" text, which does not
\* contain the code.
C18_CodeFieldIsOriginalCode ==
    DeclinedWithCode(UnlistedCodes) =>
        /\ last.result.status = "DECLINED"
        /\ ~last.result.error.retryable
        /\ last.result.error.code = last.input.processorResponse.responseCode
        /\ last.result.error.message
                = <<"Payment declined", ". Please try again or use a different card.">>
        /\ ~Contains(last.result.error.message, last.input.processorResponse.responseCode)

C18_Witness ==
    /\ DeclinedWithCode({"9999"})
    /\ last.result.error.code = "9999"
    /\ ~last.result.error.retryable

----------------------------------------------------------------------------
(* C19 *)

\* C19: every PENDING result of authorizePayment carries a data.error
\* descriptor with a message and a retryable flag.
C19_PendingCarriesError ==
    (Ran("authorizePayment") /\ Returned /\ last.result.status = PaymentSessionStatus.PENDING)
        => /\ Has(last.result.data, "error")
           /\ Has(last.result.data.error, "message")
           /\ Has(last.result.data.error, "retryable")

----------------------------------------------------------------------------
(* C20 *)

WebhookResource == last.input.data.resource

\* the handler ran on a PAYMENT.CAPTURE.COMPLETED event that carries an
\* amount, and the verification endpoint answered SUCCESS
C20_Case ==
    /\ Ran("getWebhookActionAndData")
    /\ last.input.data.event_type = "PAYMENT.CAPTURE.COMPLETED"
    /\ Has(WebhookResource, "amount")
    /\ \E i \in DOMAIN last.calls :
            last.calls[i].fn = "verify-webhook-signature" /\ last.calls[i].reply = "SUCCESS"

\* C20: on a PAYMENT.CAPTURE.COMPLETED event whose signature verifies,
\* getWebhookActionAndData returns action "captured" with session_id the
\* custom_id of the event's resource and amount the number that the
\* resource's amount value denotes ("75" gives 75, a non-numeric text NaN).
C20_VerifiedCaptureCompleted ==
    C20_Case =>
        /\ Returned
        /\ last.result.action = "captured"
        /\ Has(last.result.data, "session_id") <=> Has(WebhookResource, "custom_id")
        /\ Has(WebhookResource, "custom_id")
                => last.result.data.session_id = WebhookResource.custom_id
        /\ last.result.data.amount = ToNumber(WebhookResource.amount.value)
        /\ WebhookResource.amount.value = <<"7", "5">> => last.result.data.amount = 75
        /\ WebhookResource.amount.value = <<"a", "b", "c">> => last.result.data.amount = NaN

C20_Witness ==
    /\ C20_Case /\ Returned
    /\ last.result.action = "captured"
    /\ Has(last.result.data, "session_id")
    /\ last.result.data.session_id = "sess_2"
    /\ last.result.data.amount = 75

----------------------------------------------------------------------------
(* C21, C22, C23 *)

\* the verification endpoint was asked and answered SUCCESS
Verified ==
    \E i \in DOMAIN last.calls :
        last.calls[i].fn = "verify-webhook-signature" /\ last.calls[i].reply = "SUCCESS"

\* C21: getWebhookActionAndData returns action "captured" or "not_supported"
\* only after the verification answered SUCCESS; when verification fails in
\* any way (webhook id not configured, no token, HTTP error, status other
\* than SUCCESS) the result is action "failed", whatever the event type.
C21_FailsClosed ==
    Ran("getWebhookActionAndData") =>
        /\ (Returned /\ last.result.action \in {"captured", "not_supported"}) => Verified
        /\ ~Verified => (Returned /\ last.result.action = "failed")

\* C22: getWebhookActionAndData always returns; when verification failed or
\* processing threw, what it returns is action "failed" carrying the custom_id
\* and the amount of the event.
C22_NeverThrows ==
    Ran("getWebhookActionAndData") =>
        /\ Returned
        /\ ~Verified =>
                /\ last.result.action = "failed"
                /\ Has(last.result.data, "session_id") <=> Has(WebhookResource, "custom_id")
                /\ Has(WebhookResource, "custom_id")
                        => last.result.data.session_id = WebhookResource.custom_id
                /\ Has(WebhookResource, "amount")
                        => last.result.data.amount = ToNumber(WebhookResource.amount.value)

\* C23: on a verified event of a type other than PAYMENT.CAPTURE.COMPLETED,
\* getWebhookActionAndData returns action "not_supported" and no data.
C23_OtherEventsNotSupported ==
    (Ran("getWebhookActionAndData") /\ Verified
        /\ last.input.data.event_type # "PAYMENT.CAPTURE.COMPLETED")
        => /\ Returned
           /\ last.result.action = "not_supported"
           /\ DOMAIN last.result = {"action"}

C23_Witness ==
    /\ Ran("getWebhookActionAndData") /\ Verified /\ Returned
    /\ last.input.data.event_type = "PAYMENT.CAPTURE.DENIED"
    /\ last.result.action = "not_supported"

----------------------------------------------------------------------------
(* C24, C25 *)

\* initiatePayment ran on an input that passes its validation: a data bag,
\* an amount that is not 0 and a currency
InitiateAccepted ==
    /\ Ran("initiatePayment")
    /\ Has(last.input, "data")
    /\ Has(last.input, "amount") /\ ~Falsy(last.input.amount)
    /\ Has(last.input, "currency_code")

C25_CreateFailurePropagates ==
    (InitiateAccepted /\ Len(last.calls) >= 1 /\ last.calls[1].reply # "created") =>
        /\ last.outcome = "throw"
        /\ last.calls[1].reply = "rejected" => last.error = "ApiError"
        /\ last.calls[1].reply = "no id" => last.error = "Error: Failed to create order"
        /\ Len(last.calls) = 1
        /\ last.result = EmptyObj

C25_Witness ==
    /\ InitiateAccepted
    /\ Len(last.calls) = 1
    /\ last.calls[1].reply = "no id"
    /\ last.outcome = "throw"
    /\ last.error = "Error: Failed to create order"

----------------------------------------------------------------------------
(* C26 *)

LifecycleOperations ==
    {"initiatePayment", "authorizePayment", "capturePayment", "cancelPayment",
     "deletePayment", "refundPayment", "getPaymentStatus"}

\* the input lacks the data bag, or something the operation requires of it
InputIncomplete ==
    \/ ~Has(last.input, "data")
    \/ /\ Ran("initiatePayment")
       /\ (~Has(last.input, "amount") \/ Falsy(last.input.amount) \/ ~Has(last.input, "currency_code"))
    \/ /\ last.op \in LifecycleOperations \ {"initiatePayment"}
       /\ ~Has(last.input.data, "id")
    \/ /\ Ran("authorizePayment")
       /\ (~Has(last.input.data, "amount") \/ ~Has(last.input.data, "currency_code"))

\* C26: every lifecycle operation called without a data bag, or without the
\* order id, amount or currency it requires, throws the INVALID_DATA error
\* and makes no processor call.
C26_ValidationPrecedesCalls ==
    (last.op \in LifecycleOperations /\ InputIncomplete)
        => /\ last.outcome = "throw"
           /\ last.error = "MedusaError.INVALID_DATA"
           /\ last.calls = <<>>

C26_Witness ==
    /\ Ran("authorizePayment")
    /\ Has(last.input, "data")
    /\ Has(last.input.data, "id")
    /\ ~Has(last.input.data, "amount")
    /\ last.outcome = "throw"
    /\ last.calls = <<>>

----------------------------------------------------------------------------
(* C27 *)

\* the request the client sent, and the shipping details in it
SentBody == last.calls[1].body

SentShipping == IF Has(SentBody, "shipping") THEN SentBody.shipping ELSE EmptyObj

CustomerKeys == {"name", "emailAddress", "phoneNumber"}

\* C27 as stated: shipping, item and customer data are forwarded only if the
\* adapter is configured to include them: no address without
\* includeShippingData, no name, email or phone without includeCustomerData,
\* and none of the optional data, items included, when both switches are off.
C27_OptionalDataOnlyIfConfigured ==
    Ran("createOrder") =>
        /\ ~IncludeShippingData(options) => ~Has(SentShipping, "address")
        /\ ~IncludeCustomerData(options) => DOMAIN SentShipping \cap CustomerKeys = {}
        /\ (~IncludeShippingData(options) /\ ~IncludeCustomerData(options))
                => ~Has(SentBody, "items")

\* C27 amended: the address is forwarded exactly when includeShippingData is
\* set and the shipping info has a country code; the customer's name exactly
\* when includeCustomerData is set and shipping info is supplied, email and
\* phone only with it; each switch decides its own data whatever the other
\* is.  Items are forwarded whenever they are supplied, whatever the
\* switches, and a shipping object with the fulfilment type is sent whenever
\* shipping info is supplied.
C27_SwitchesGateAddressAndCustomer ==
    Ran("createOrder") =>
        /\ Has(SentShipping, "address")
                <=> /\ IncludeShippingData(options)
                    /\ Has(last.input, "shipping_info")
                    /\ Has(last.input.shipping_info, "country_code")
        /\ Has(SentBody, "shippingPreference")
                <=> (IncludeShippingData(options) /\ Has(last.input, "shipping_info"))
        /\ Has(SentShipping, "name")
                <=> (IncludeCustomerData(options) /\ Has(last.input, "shipping_info"))
        /\ Has(SentShipping, "emailAddress")
                <=> /\ IncludeCustomerData(options)
                    /\ Has(last.input, "shipping_info") /\ Has(last.input, "email")
        /\ Has(SentShipping, "phoneNumber") => IncludeCustomerData(options)
        /\ Has(SentBody, "items") <=> (Has(last.input, "items") /\ last.input.items # <<>>)
        /\ Has(SentBody, "shipping") <=> Has(last.input, "shipping_info")
        /\ Has(SentBody, "shipping") => SentShipping.type = "SHIPPING"

C27_Witness ==
    /\ Ran("createOrder")
    /\ IncludeShippingData(options) /\ ~IncludeCustomerData(options)
    /\ Has(last.input, "email")
    /\ Has(SentShipping, "address")
    /\ DOMAIN SentShipping \cap CustomerKeys = {}
    /\ Has(SentBody, "items")

----------------------------------------------------------------------------
(* C28 *)

\* the status an operation reports: the result's own, else that of its data
ReportedStatus ==
    IF Has(last.result, "status") THEN last.result.status
    ELSE IF ResultHasDataStatus THEN last.result.data.status
    ELSE "none"

\* C28: an operation applied to a session whose data are marked CAPTURED
\* never reports PENDING or AUTHORIZED, and reports CANCELED only when the
\* operation is refundPayment.
C28_CapturedNeverMovesBack ==
    (last.op \in LifecycleOperations /\ Returned
        /\ Has(last.input, "data") /\ Has(last.input.data, "status")
        /\ last.input.data.status = PaymentSessionStatus.CAPTURED)
        => /\ ReportedStatus \notin {PaymentSessionStatus.PENDING, PaymentSessionStatus.AUTHORIZED}
           /\ ReportedStatus = PaymentSessionStatus.CANCELED => Ran("refundPayment")

----------------------------------------------------------------------------
(* C29, C30 *)

\* C29: the classifier's result has no error descriptor exactly when the
\* status it was given is COMPLETED, and the status of the result is always
\* the status given.
C29_NoErrorIffCompleted ==
    Ran("checkPaymentStatus") =>
        /\ last.result.status = last.input.status
        /\ ~Has(last.result, "error") <=> last.input.status = "COMPLETED"

C29_Witness ==
    /\ Ran("checkPaymentStatus")
    /\ last.input.status = "PENDING"
    /\ Has(last.result, "error")
    /\ last.result.status = "PENDING"

\* the processor response has no response code, or an empty one
NoResponseCode(processorResponse) ==
    \/ ~Has(processorResponse, "responseCode")
    \/ processorResponse.responseCode = ""

\* C30: on DECLINED without a response code (absent or empty) the classifier
\* returns the generic descriptor with code "DECLINED", the "Payment declined"
\* message and retryable = FALSE; and whatever the input, a descriptor with
\* retryable = TRUE comes only from a DECLINED status with a code of the table.
C30_GenericDeclineNotRetryable ==
    Ran("checkPaymentStatus") =>
        /\ (last.input.status = "DECLINED" /\ NoResponseCode(last.input.processorResponse)) =>
                /\ last.result.error.code = "DECLINED"
                /\ Contains(last.result.error.message, "Payment declined")
                /\ ~last.result.error.retryable
        /\ (Has(last.result, "error") /\ last.result.error.retryable) =>
                /\ last.input.status = "DECLINED"
                /\ ~NoResponseCode(last.input.processorResponse)
                /\ last.input.processorResponse.responseCode
                        \in {"0500", "9500", "5400", "5120", "00N7", "1330", "5100"}

C30_Witness ==
    /\ Ran("checkPaymentStatus")
    /\ last.input.status = "DECLINED"
    /\ Has(last.input.processorResponse, "responseCode")
    /\ last.input.processorResponse.responseCode = ""
    /\ last.result.error.code = "DECLINED"
    /\ ~last.result.error.retryable

----------------------------------------------------------------------------
(* C31 *)

\* C31: for every status other than COMPLETED and DECLINED the classifier
\* returns the descriptor with code "UNKNOWN_STATUS", retryable = FALSE and a
\* message that contains the status it was given.
C31_UnknownStatusNamesTheStatus ==
    (Ran("checkPaymentStatus") /\ last.input.status \notin {"COMPLETED", "DECLINED"}) =>
        /\ last.result.error.code = "UNKNOWN_STATUS"
        /\ ~last.result.error.retryable
        /\ Contains(last.result.error.message, last.input.status)
        /\ Contains(last.result.error.message, "Unknown payment status: ")

C31_Witness ==
    /\ Ran("checkPaymentStatus")
    /\ last.input.status = "FAILED"
    /\ last.result.error.code = "UNKNOWN_STATUS"
    /\ Contains(last.result.error.message, "FAILED")

----------------------------------------------------------------------------
(* C33 *)

\* the createOrder calls of the last invocation that the processor answered with a new order
CreatedCalls == {i \in CreateCalls : last.calls[i].reply = "created"}

\* C33: an authorizePayment that returns AUTHORIZED has made no createOrder
\* call; one that returns PENDING has created exactly one order; when a
\* createOrder call created an order the result is PENDING and its data.id is
\* the id of that order; when the createOrder call failed, authorizePayment
\* throws the error of that call and returns nothing.
C33_ReplacementIffPending ==
    Ran("authorizePayment") =>
        /\ (Returned /\ last.result.status = PaymentSessionStatus.AUTHORIZED) => CreateCalls = {}
        /\ (Returned /\ last.result.status = PaymentSessionStatus.PENDING)
                => (Cardinality(CreatedCalls) = 1 /\ Cardinality(CreateCalls) = 1)
        /\ CreatedCalls # {} =>
                /\ Returned
                /\ last.result.status = PaymentSessionStatus.PENDING
                /\ last.result.data.id = Len(orders)
                /\ last.result.data.id # last.input.data.id
        /\ \A i \in CreateCalls \ CreatedCalls :
                /\ last.outcome = "throw"
                /\ last.result = EmptyObj
                /\ last.calls[i].reply = "rejected" => last.error = "ApiError"
                /\ last.calls[i].reply = "no id" => last.error = "Error: Failed to create order"

C33_Witness ==
    /\ Ran("authorizePayment") /\ Returned
    /\ last.result.status = PaymentSessionStatus.PENDING
    /\ CreatedCalls # {}
    /\ last.result.data.id = 2
    /\ last.input.data.id = 1

----------------------------------------------------------------------------
(* C34 *)

\* the capture calls of the invocation inv
CaptureCallsOf(inv) == {i \in DOMAIN inv.calls : inv.calls[i].fn = "captureOrder"}

ReturnedPending(inv) ==
    /\ inv.op = "authorizePayment"
    /\ inv.outcome = "return"
    /\ inv.result.status = PaymentSessionStatus.PENDING

\* a step in which authorizePayment returns PENDING creates exactly one
\* order, and the data it returns name that order and hold no completed capture
C34_DeclineCreatesOneOrder ==
    ReturnedPending(last') =>
        /\ Len(orders') = Len(orders) + 1
        /\ session' = last'.result.data
        /\ session'.id = Len(orders')
        /\ ~(Has(FirstCapture(session'), "status") /\ FirstCapture(session').status = "COMPLETED")

\* authorizePayment called again on the data a PENDING result returned
\* captures the replacement order, and not the order of the declined attempt
C34_RetryCapturesReplacement ==
    (ReturnedPending(last) /\ last'.op = "authorizePayment") =>
        /\ last'.input.data = last.result.data
        /\ Cardinality(CaptureCallsOf(last')) = 1
        /\ \A i \in CaptureCallsOf(last') :
                /\ last'.calls[i].id = last.result.data.id
                /\ last'.calls[i].id # last.input.data.id

----------------------------------------------------------------------------
(* C35 *)

\* the orders whose capture call returned in the invocation inv
CapturedIn(inv) ==
    {inv.calls[i].id : i \in {j \in CaptureCallsOf(inv) : inv.calls[j].reply.kind = "return"}}

\* C35: when authorizePayment or capturePayment has made a capture call that
\* succeeded for an order, the next authorizePayment or capturePayment on
\* the data it returned makes no capture call for that order.
C35_CapturedOrderNotCapturedAgain ==
    [][(/\ last.op \in {"authorizePayment", "capturePayment"}
        /\ last.outcome = "return"
        /\ last'.op \in {"authorizePayment", "capturePayment"})
            => \A i \in CaptureCallsOf(last') : last'.calls[i].id \notin CapturedIn(last)]_vars

----------------------------------------------------------------------------
(* C36 *)

RejectedRefunds == {i \in DOMAIN last.calls : last.calls[i].reply = "rejected"}

\* C36: when the refund call for the k-th capture id is rejected,
\* refundPayment has made the calls for the capture ids 1..k in order, the
\* first k-1 of them successful, makes no call for a later capture id, and
\* throws the adapter's error without returning CANCELED.
C36_RefundStopsAtFailure ==
    (RanOnOrder("refundPayment") /\ RejectedRefunds # {}) =>
        /\ RejectedRefunds = {Len(last.calls)}
        /\ Len(last.calls) <= Len(SessionCaptureIds)
        /\ \A i \in DOMAIN last.calls : last.calls[i].captureId = SessionCaptureIds[i]
        /\ last.outcome = "throw"
        /\ last.error = "MedusaError.INVALID_DATA"
        /\ last.result = EmptyObj

C36_Witness ==
    /\ RanOnOrder("refundPayment")
    /\ Len(SessionCaptureIds) = 3
    /\ Len(last.calls) = 2
    /\ last.calls[1].reply = "refunded"
    /\ last.calls[2].reply = "rejected"
    /\ last.outcome = "throw"

----------------------------------------------------------------------------
(* C37 *)

CancelingOperations == {"cancelPayment", "deletePayment", "refundPayment"}

\* the stored data are those of a canceled session
SessionCanceled ==
    /\ session # Undefined
    /\ DOMAIN session = {"order_id", "status", "cancelled_at"}
    /\ session.status = PaymentSessionStatus.CANCELED

\* cancelPayment, deletePayment and refundPayment return order_id, status and
\* cancelled_at and nothing else
C37_CanceledDataHaveNoId ==
    (last.op \in CancelingOperations /\ Returned)
        => (DOMAIN last.result.data = {"order_id", "status", "cancelled_at"} /\ SessionCanceled)

\* the next invocation is one of `ops` and is handed the stored data
HandedStoredData(ops) ==
    /\ last'.op \in ops
    /\ Has(last'.input, "data")
    /\ last'.input.data = session

\* the next invocation fails validation, calls nothing and changes nothing
FailsValidationNext ==
    /\ last'.outcome = "throw"
    /\ last'.error = "MedusaError.INVALID_DATA"
    /\ last'.calls = <<>>
    /\ session' = session
    /\ orders' = orders

\* the operations that read the order id from the data they are handed
OrderOperations == LifecycleOperations \ {"initiatePayment"}

\* C37 as stated: the data cancelPayment, deletePayment and refundPayment
\* return hold order_id, status and cancelled_at only, and every lifecycle
\* operation invoked with those data fails validation and makes no processor call.
C37_CanceledIsAbsorbingForAll ==
    [](C37_CanceledDataHaveNoId)
    /\ [][(SessionCanceled /\ HandedStoredData(LifecycleOperations)) => FailsValidationNext]_vars

\* C37 (amended): the data cancelPayment, deletePayment and refundPayment
\* return hold order_id, status and cancelled_at only, no id; every operation
\* other than initiatePayment that is then invoked with those data
\* (authorize, capture, cancel, delete, refund, getPaymentStatus) throws the
\* INVALID_DATA error, makes no processor call and leaves the data as they are.
C37_CanceledIsAbsorbing ==
    [](C37_CanceledDataHaveNoId)
    /\ [][(SessionCanceled /\ HandedStoredData(OrderOperations)) => FailsValidationNext]_vars

C37_Witness ==
    /\ SessionCanceled
    /\ Ran("authorizePayment")
    /\ last.input.data = session
    /\ last.outcome = "throw"
    /\ last.calls = <<>>

----------------------------------------------------------------------------
(* C32 *)

\* the calls of the invocation in progress that are issued and not yet answered
Outstanding ==
    IF inflight = Idle THEN {} ELSE (inflight.resolved + 1)..inflight.issued

\* C32: while an operation runs at most one of its processor calls is
\* outstanding, every call is issued only when all calls before it were
\* answered, and authorizePayment issues the replacement createOrder only
\* after its capture call was answered.
C32_OneCallOutstanding ==
    /\ Cardinality(Outstanding) <= 1
    /\ inflight # Idle =>
        \A i \in 1..inflight.issued :
            /\ \A j \in 1..(i - 1) : j <= inflight.resolved
            /\ (inflight.op = "authorizePayment" /\ inflight.run.calls[i].fn = "createOrder") =>
                    \E j \in 1..(i - 1) :
                        /\ inflight.run.calls[j].fn = "captureOrder"
                        /\ j <= inflight.resolved

C32_Witness ==
    /\ inflight # Idle
    /\ inflight.op = "refundPayment"
    /\ inflight.issued = 3
    /\ inflight.resolved = 2
    /\ Outstanding = {3}

====
